---- MODULE Spec2Model ----
(***************************************************************************)
(* Build-time page generation of node-scripts/page-generation.js: the four *)
(* exported routines (createChallengesPages, createTracksPages,            *)
(* createTrackVideoPages, createGuidePages), the helper extractTags, and   *)
(* their collaborators graphql, createPage, writeFile and paginate.        *)
(*                                                                         *)
(* A JavaScript string is a sequence of one-character strings, so that     *)
(* case folding, collation, slug derivation and regular-expression tests   *)
(* are computed character by character.  A page path is the sequence of    *)
(* its "/"-separated segments; the page sink treats a path with and        *)
(* without a leading "/" as the same key.                                  *)
(***************************************************************************)
EXTENDS Integers, Sequences, FiniteSets, TLC

\* Largest number of nodes in a hand-shaped node list of one content type.
MaxNodes == 2

\* Largest number of nodes in a generated (uniformly shaped) challenge list.
MaxItems == 120

ITEMS_PER_PAGE == 50

----------------------------------------------------------------------------
\* Characters and strings

UpperCase ==
    <<"A","B","C","D","E","F","G","H","I","J","K","L","M",
      "N","O","P","Q","R","S","T","U","V","W","X","Y","Z">>

LowerCase ==
    <<"a","b","c","d","e","f","g","h","i","j","k","l","m",
      "n","o","p","q","r","s","t","u","v","w","x","y","z">>

Digits == <<"0","1","2","3","4","5","6","7","8","9">>

\* Position of character c in the alphabet s, 0 when it is not in it.
IndexIn(c, s) ==
    IF \E i \in DOMAIN s : s[i] = c THEN CHOOSE i \in DOMAIN s : s[i] = c ELSE 0

\* What the regular-expression flag "i" and a slug's lower-casing do to a string.
toLowerCase(str) ==
    [i \in DOMAIN str |->
        IF IndexIn(str[i], UpperCase) > 0
        THEN LowerCase[IndexIn(str[i], UpperCase)]
        ELSE str[i]]

\* Primary collation weight of a character under English collation:
\* white space, then punctuation, then digits, then letters; a letter and
\* its capital share one weight (sensitivity "base").
PrimaryWeight(c) ==
    IF c = " " THEN 1
    ELSE IF IndexIn(c, Digits) > 0 THEN 10 + IndexIn(c, Digits)
    ELSE IF IndexIn(c, LowerCase) > 0 THEN 100 + IndexIn(c, LowerCase)
    ELSE IF IndexIn(c, UpperCase) > 0 THEN 100 + IndexIn(c, UpperCase)
    ELSE 2

RECURSIVE CompareFrom(_, _, _)
CompareFrom(a, b, i) ==
    IF i > Len(a) /\ i > Len(b) THEN 0
    ELSE IF i > Len(a) THEN -1
    ELSE IF i > Len(b) THEN 1
    ELSE IF PrimaryWeight(a[i]) < PrimaryWeight(b[i]) THEN -1
    ELSE IF PrimaryWeight(a[i]) > PrimaryWeight(b[i]) THEN 1
    ELSE CompareFrom(a, b, i + 1)

\* a.localeCompare(b, 'en', { sensitivity: 'base' }): negative, zero or positive.
localeCompare(a, b) == CompareFrom(a, b, 1)

\* The decimal digits of a natural number, as `${n}` prints it.
RECURSIVE NumStr(_)
NumStr(n) ==
    IF n < 10 THEN <<Digits[n + 1]>>
    ELSE Append(NumStr(n \div 10), Digits[(n % 10) + 1])

\* The concatenation of a sequence of sequences (by halves, which keeps
\* the evaluation shallow on a long sequence).
RECURSIVE Flatten(_)
Flatten(seqs) ==
    IF Len(seqs) = 0 THEN <<>>
    ELSE IF Len(seqs) = 1 THEN seqs[1]
    ELSE Flatten(SubSeq(seqs, 1, Len(seqs) \div 2))
         \o Flatten(SubSeq(seqs, (Len(seqs) \div 2) + 1, Len(seqs)))

----------------------------------------------------------------------------
\* extractTags

\* Whether set.add(vals[i]) adds: the Set holds no equal value yet (exact
\* string equality), that is, none of the values added before is equal.
AddsAlways(vals, i) == TRUE

Adds(vals, i) == \A j \in 1..(i - 1) : vals[j] # vals[i]

\* [...set] after set.add of each value in order: a Set iterates in
\* insertion order, so these are the first occurrences, in order.
SetValues(vals) ==
    LET IsAdded(i) == Adds(vals, i)
        added == SelectSeq([i \in DOMAIN vals |-> i], IsAdded)
    IN  [k \in DOMAIN added |-> vals[added[k]]]

\* One step of the stable sort: v goes after every element that does not
\* compare greater than it.
RECURSIVE InsertSorted(_, _)
InsertSorted(sorted, v) ==
    IF sorted = <<>> THEN <<v>>
    ELSE IF localeCompare(Head(sorted), v) > 0 THEN <<v>> \o sorted
    ELSE <<Head(sorted)>> \o InsertSorted(Tail(sorted), v)

RECURSIVE SortTags(_)
SortTags(vals) ==
    IF vals = <<>> THEN <<>>
    ELSE InsertSorted(SortTags(SubSeq(vals, 1, Len(vals) - 1)), vals[Len(vals)])

extractTags(nodes, pluckKey) ==
    SortTags(SetValues(Flatten([i \in DOMAIN nodes |-> nodes[i][pluckKey]])))

----------------------------------------------------------------------------
\* The content data layer: what the graphql collaborator answers from

LANG_JS_LOWER == <<"j","s">>
LANG_JS_UPPER == <<"J","S">>
LANG_P5 == <<"p","5">>
TOPIC_ML == <<"m","l">>
TOPIC_M_L == <<"m"," ","l">>
TOPIC_ALL == <<"a","l","l">>

\* The tag lists a challenge or a track may carry: a tag shared between
\* nodes, two tags that differ only in case, a tag repeated within a node,
\* a tag with white space, a tag spelled like the wildcard segment, and no
\* tag at all.
TagProfiles ==
    { [languages |-> <<LANG_JS_LOWER>>, topics |-> <<TOPIC_ML>>],
      [languages |-> <<LANG_P5, LANG_JS_UPPER>>, topics |-> <<TOPIC_ML, TOPIC_ALL>>],
      [languages |-> <<>>, topics |-> <<TOPIC_M_L>>],
      [languages |-> <<LANG_JS_LOWER, LANG_JS_LOWER>>, topics |-> <<>>] }

BaseProfile == [languages |-> <<LANG_JS_LOWER>>, topics |-> <<TOPIC_ML>>]

\* A node's slug is its own ("n1", "n2", ...) or one it shares with others ("x").
OwnSlug(i) == <<"n">> \o NumStr(i)
SharedSlug == <<"x">>
SlugOf(i, shared) == IF shared THEN SharedSlug ELSE OwnSlug(i)

\* The shape of a track's videos: flat (one video sequence) or chaptered
\* (one video sequence per chapter), given by the lengths of the sequences.
VideoForms ==
    { [chaptered |-> FALSE, sizes |-> <<2>>],
      [chaptered |-> TRUE,  sizes |-> <<2, 1>>],
      [chaptered |-> FALSE, sizes |-> <<0>>],
      [chaptered |-> TRUE,  sizes |-> <<>>],
      [chaptered |-> TRUE,  sizes |-> <<0, 1>>] }

BaseForm == [chaptered |-> FALSE, sizes |-> <<2>>]

RECURSIVE SumUpTo(_, _)
SumUpTo(sizes, k) == IF k = 0 THEN 0 ELSE sizes[k] + SumUpTo(sizes, k - 1)

\* The j-th video (from 0) of the track at position t; a video belongs to
\* one track, so its identifier is the track's position and its own.
MakeVideo(t, j) ==
    [id |-> 100 * t + j, slug |-> <<"v">> \o NumStr(j), source |-> "youtube"]

VideosOf(t, first, n) == [j \in 1..n |-> MakeVideo(t, first + j - 1)]

MakeNode(i, shared, profile) ==
    [id |-> i, slug |-> SlugOf(i, shared),
     languages |-> profile.languages, topics |-> profile.topics]

\* A flat track has videos and no chapters (null, here: no such field); a
\* chaptered track has chapters and no videos.
MakeTrack(i, shared, profile, form) ==
    IF form.chaptered
    THEN [id |-> i, slug |-> SlugOf(i, shared),
          languages |-> profile.languages, topics |-> profile.topics,
          chapters |-> [c \in DOMAIN form.sizes |->
                          [videos |-> VideosOf(i, SumUpTo(form.sizes, c - 1),
                                               form.sizes[c])]]]
    ELSE [id |-> i, slug |-> SlugOf(i, shared),
          languages |-> profile.languages, topics |-> profile.topics,
          videos |-> VideosOf(i, 0, form.sizes[1])]

MakeGuide(i, shared) == [slug |-> SlugOf(i, shared)]

\* A generated challenge: two in three are tagged js, the others p5.
GeneratedNode(i) ==
    [id |-> i, slug |-> OwnSlug(i),
     languages |-> IF i % 3 = 0 THEN <<LANG_P5>> ELSE <<LANG_JS_LOWER>>,
     topics |-> <<TOPIC_ML>>]

\* The lengths of the generated lists: those around a multiple of the page
\* size, and the largest.
GeneratedSizes ==
    { n \in 0..MaxItems : n = MaxItems \/ n % ITEMS_PER_PAGE \in {0, 1, ITEMS_PER_PAGE - 1} }

\* All the lists of at most MaxNodes choices.
ChoiceLists(Choices) == UNION { [1..n -> Choices] : n \in 0..MaxNodes }

ChallengeLists ==
    { [i \in DOMAIN f |-> MakeNode(i, f[i][1], f[i][2])] :
        f \in ChoiceLists(({FALSE} \X TagProfiles) \cup {<<TRUE, BaseProfile>>}) }
    \cup { [i \in 1..n |-> GeneratedNode(i)] : n \in GeneratedSizes }

TaggedTrackLists ==
    { [i \in DOMAIN f |-> MakeTrack(i, FALSE, f[i], BaseForm)] :
        f \in ChoiceLists(TagProfiles) }

VideoTrackLists ==
    { [i \in DOMAIN f |-> MakeTrack(i, FALSE, BaseProfile, f[i])] :
        f \in ChoiceLists(VideoForms) }

GuideLists ==
    { [i \in DOMAIN f |-> MakeGuide(i, f[i])] : f \in ChoiceLists(BOOLEAN) }

BaseDb ==
    [challenges |-> <<MakeNode(1, FALSE, BaseProfile)>>,
     tracks |-> <<MakeTrack(1, FALSE, BaseProfile, BaseForm)>>,
     guides |-> <<MakeGuide(1, FALSE)>>]

\* The databases a build is run on: one content type at a time ranges over
\* all its lists, the others hold one plain node each.
DbInputs ==
    { [BaseDb EXCEPT !.challenges = c] : c \in ChallengeLists }
    \cup { [BaseDb EXCEPT !.tracks = t] : t \in TaggedTrackLists \cup VideoTrackLists }
    \cup { [BaseDb EXCEPT !.guides = g] : g \in GuideLists }

----------------------------------------------------------------------------
\* Paths, templates and queries

SEG_CHALLENGES == <<"c","h","a","l","l","e","n","g","e","s">>
SEG_TRACKS == <<"t","r","a","c","k","s">>
SEG_GUIDES == <<"g","u","i","d","e","s">>
SEG_LANG == <<"l","a","n","g">>
SEG_TOPIC == <<"t","o","p","i","c">>
SEG_ALL == <<"a","l","l">>

\* The pattern '.*' that stands for "any value" in the loops over the facets.
WILDCARD == <<".","*">>

Routines ==
    {"createChallengesPages", "createTracksPages",
     "createTrackVideoPages", "createGuidePages"}

ListingRoutines == {"createChallengesPages", "createTracksPages"}

\* The order in which a build calls the routines, each awaited before the next.
BuildOrder ==
    <<"createChallengesPages", "createTracksPages",
      "createTrackVideoPages", "createGuidePages">>

\* What the routine's unfiltered query (allChallenge, allTrack, allMdx) answers.
NodesOf(r, d) ==
    CASE r = "createChallengesPages" -> d.challenges
      [] r = "createTracksPages" -> d.tracks
      [] r = "createTrackVideoPages" -> d.tracks
      [] r = "createGuidePages" -> d.guides

CollectionSegment(r) ==
    IF r = "createChallengesPages" THEN SEG_CHALLENGES ELSE SEG_TRACKS

ListingTemplate(r) ==
    IF r = "createChallengesPages" THEN "templates/challenges.js" ELSE "templates/tracks.js"

ManifestPath(r) ==
    IF r = "createChallengesPages"
    THEN "./public/filters-challenges.json"
    ELSE "./public/filters-tracks.json"

\* The slug normalizer of ./utils: lower case, white space to a hyphen.
toSlug(str) ==
    [i \in DOMAIN str |-> IF str[i] = " " THEN "-" ELSE toLowerCase(str)[i]]

\* `/^${tag}$/i`
RegexOf(tag) == <<"/","^">> \o tag \o <<"$","/","i">>

\* Whether the regular expression `/^pattern$/i` matches the whole value.
RegexTest(regex, value) ==
    LET pattern == SubSeq(regex, 3, Len(regex) - 3)
    IN  IF pattern = WILDCARD THEN TRUE
        ELSE toLowerCase(pattern) = toLowerCase(value)

\* The filter of a filtered query on one tag list: some value matches.
AnyMatches(regex, values) == \E i \in DOMAIN values : RegexTest(regex, values[i])

AllQuery(r) ==
    [routine |-> r, filtered |-> FALSE, languageRegex |-> <<>>, topicRegex |-> <<>>]

FilteredQuery(r, language, topic) ==
    [routine |-> r, filtered |-> TRUE,
     languageRegex |-> RegexOf(language), topicRegex |-> RegexOf(topic)]

\* The nodes that pass both filters, in node order, with the one field
\* (id) the filtered query selects.
SelectIds(nodes, q) ==
    LET Passes(node) ==
            /\ AnyMatches(q.languageRegex, node.languages)
            /\ AnyMatches(q.topicRegex, node.topics)
        passing == SelectSeq(nodes, Passes)
    IN  [i \in DOMAIN passing |-> [id |-> passing[i].id]]

\* What graphql answers to a query: all the nodes, or the identifiers of
\* the nodes that pass both filters, in node order.
Answer(q, d) ==
    IF q.filtered THEN SelectIds(NodesOf(q.routine, d), q) ELSE NodesOf(q.routine, d)

----------------------------------------------------------------------------
\* paginate (gatsby-awesome-pagination)

NumberOfPages(n, itemsPerPage) == (n + itemsPerPage - 1) \div itemsPerPage

PagePath(pathPrefix, i) ==
    IF i = 1 THEN pathPrefix ELSE Append(pathPrefix, NumStr(i))

\* The createPage calls of one paginate call, in order: none for no items.
Paginate(req) ==
    LET n == NumberOfPages(Len(req.items), req.itemsPerPage)
    IN  [i \in 1..n |->
          [path |-> PagePath(req.pathPrefix, i),
           component |-> req.component,
           context |-> req.context @@
             [pageNumber |-> i - 1,
              humanPageNumber |-> i,
              skip |-> (i - 1) * req.itemsPerPage,
              limit |-> req.itemsPerPage,
              numberOfPages |-> n,
              previousPagePath |-> IF i = 1 THEN <<>> ELSE PagePath(req.pathPrefix, i - 1),
              nextPagePath |-> IF i = n THEN <<>> ELSE PagePath(req.pathPrefix, i + 1)]]]

----------------------------------------------------------------------------
\* The pages of createChallengesPages and createTracksPages

\* The context without the identifier.
DetailPageWithoutId(challenge) ==
    [path |-> <<SEG_CHALLENGES, challenge.slug>>,
     component |-> "templates/challenge.js",
     context |-> [slug |-> challenge.slug]]

DetailPage(challenge) ==
    [path |-> <<SEG_CHALLENGES, challenge.slug>>,
     component |-> "templates/challenge.js",
     context |-> [id |-> challenge.id, slug |-> challenge.slug]]

\* The loop starting at the second node.
DetailPagesFromSecond(r, nodes) ==
    IF r = "createChallengesPages"
    THEN [i \in 1..(Len(nodes) - 1) |->
            [path |-> <<SEG_CHALLENGES, nodes[i + 1].slug>>,
             component |-> "templates/challenge.js",
             context |-> [id |-> nodes[i + 1].id, slug |-> nodes[i + 1].slug]]]
    ELSE <<>>

\* challenges.nodes.forEach(createPage); createTracksPages has no such loop.
DetailPages(r, nodes) ==
    IF r = "createChallengesPages"
    THEN [i \in DOMAIN nodes |-> DetailPage(nodes[i])]
    ELSE <<>>

\* The listing with one item too many on a page.
BaselineRequestOffByOne(r, nodes) ==
    [items |-> nodes,
     itemsPerPage |-> ITEMS_PER_PAGE + 1,
     pathPrefix |-> <<CollectionSegment(r)>>,
     component |-> ListingTemplate(r),
     context |-> [topic |-> <<>>, topicRegex |-> RegexOf(WILDCARD),
                  language |-> <<>>, languageRegex |-> RegexOf(WILDCARD)]]

BaselineRequest(r, nodes) ==
    [items |-> nodes,
     itemsPerPage |-> ITEMS_PER_PAGE,
     pathPrefix |-> <<CollectionSegment(r)>>,
     component |-> ListingTemplate(r),
     context |-> [topic |-> <<>>, topicRegex |-> RegexOf(WILDCARD),
                  language |-> <<>>, languageRegex |-> RegexOf(WILDCARD)]]

PathSegment(tag) == IF tag # WILDCARD THEN toSlug(tag) ELSE SEG_ALL

FilteredPathPrefix(r, language, topic) ==
    <<CollectionSegment(r), SEG_LANG, PathSegment(language),
      SEG_TOPIC, PathSegment(topic)>>

FilteredRequest(r, language, topic, items) ==
    [items |-> items,
     itemsPerPage |-> ITEMS_PER_PAGE,
     pathPrefix |-> FilteredPathPrefix(r, language, topic),
     component |-> ListingTemplate(r),
     context |-> [topic |-> IF topic # WILDCARD THEN topic ELSE <<>>,
                  topicRegex |-> RegexOf(topic),
                  language |-> IF language # WILDCARD THEN language ELSE <<>>,
                  languageRegex |-> RegexOf(language)]]

\* The k-th (from 1) pair of the nested loops: languages outside, topics
\* inside, each list followed by the wildcard.
Combination(languages, topics, k) ==
    LET ls == Append(languages, WILDCARD)
        ts == Append(topics, WILDCARD)
    IN  [language |-> ls[((k - 1) \div Len(ts)) + 1],
         topic |-> ts[((k - 1) % Len(ts)) + 1]]

NumCombinations(languages, topics) == (Len(languages) + 1) * (Len(topics) + 1)

----------------------------------------------------------------------------
\* The pages of createTrackVideoPages and createGuidePages

IsChaptered(track) == "chapters" \in DOMAIN track

\* Whether track.chapters[0].videos[0] (track.videos[0]) is a video; when
\* it is not, reading its id raises a TypeError.
HasFirstVideo(track) ==
    IF IsChaptered(track)
    THEN Len(track.chapters) > 0 /\ Len(track.chapters[1].videos) > 0
    ELSE Len(track.videos) > 0

FirstVideo(track) ==
    IF IsChaptered(track) THEN track.chapters[1].videos[1] ELSE track.videos[1]

TrackPage(track, video, isTrackPage, chapterIndex, videoIndex) ==
    [path |-> IF isTrackPage THEN <<SEG_TRACKS, track.slug>>
              ELSE <<SEG_TRACKS, track.slug, video.slug>>,
     component |-> "templates/track-video.js",
     context |-> [isTrackPage |-> isTrackPage,
                  trackId |-> track.id,
                  videoId |-> video.id,
                  videoSlug |-> video.slug,
                  source |-> video.source,
                  trackPosition |-> [chapterIndex |-> chapterIndex,
                                     videoIndex |-> videoIndex]]]

VideoPages(track) ==
    IF IsChaptered(track)
    THEN Flatten([c \in DOMAIN track.chapters |->
                    [v \in DOMAIN track.chapters[c].videos |->
                        TrackPage(track, track.chapters[c].videos[v], FALSE, c - 1, v - 1)]])
    ELSE [v \in DOMAIN track.videos |->
            TrackPage(track, track.videos[v], FALSE, 0, v - 1)]

\* The createPage calls of one round of data.tracks.nodes.forEach.
TrackPages(track) ==
    <<TrackPage(track, FirstVideo(track), TRUE, 0, 0)>> \o VideoPages(track)

\* The first track (from 1) whose first-video lookup fails, 0 when none does.
FirstThrowingTrack(tracks) ==
    IF \E i \in DOMAIN tracks : ~HasFirstVideo(tracks[i])
    THEN CHOOSE i \in DOMAIN tracks :
            /\ ~HasFirstVideo(tracks[i])
            /\ \A j \in 1..(i - 1) : HasFirstVideo(tracks[j])
    ELSE 0

\* The forEach with the lookup guarded: a track without a first video is
\* skipped and the later tracks get their pages.
TrackVideoBatchSkipping(tracks) ==
    Flatten([i \in DOMAIN tracks |->
               IF HasFirstVideo(tracks[i]) THEN TrackPages(tracks[i]) ELSE <<>>])

\* The createPage calls of the forEach up to the round that throws.
TrackVideoBatch(tracks) ==
    LET t == FirstThrowingTrack(tracks)
        last == IF t = 0 THEN Len(tracks) ELSE t - 1
    IN  Flatten([i \in 1..last |-> TrackPages(tracks[i])])

GuidePage(mdx) ==
    [path |-> <<SEG_GUIDES, mdx.slug>>,
     component |-> "templates/guide.js",
     context |-> [slug |-> mdx.slug]]

GuideBatch(nodes) == [i \in DOMAIN nodes |-> GuidePage(nodes[i])]

----------------------------------------------------------------------------
\* The build

VARIABLES
    db,        \* the content data layer, fixed for the build
    pc,        \* where each routine stands
    combo,     \* the pair of the nested loops a listing routine is at (from 1)
    facets,    \* the languages and topics a listing routine extracted
    pending,   \* the queries a routine has issued and not yet got answered
    queryLog,  \* every query a routine has issued, in order
    pages,     \* the createPage calls that succeeded, in order
    files,     \* the writeFile calls that succeeded, in order
    thrown     \* the error that left each routine, "" when none did

vars == <<db, pc, combo, facets, pending, queryLog, pages, files, thrown>>

Init ==
    /\ db \in DbInputs
    /\ pc = [r \in Routines |-> "idle"]
    /\ combo = [r \in ListingRoutines |-> 0]
    /\ facets = [r \in ListingRoutines |-> [languages |-> <<>>, topics |-> <<>>]]
    /\ pending = [r \in Routines |-> <<>>]
    /\ queryLog = [r \in Routines |-> <<>>]
    /\ pages = <<>>
    /\ files = <<>>
    /\ thrown = [r \in Routines |-> ""]

\* An error caught and dropped inside the routine, which then resolves.
AfterThrowSwallowed(r) == "done"

\* Nothing catches: the error leaves the routine, whose promise rejects.
AfterThrow(r) == "failed"

Throw(r, error) ==
    /\ thrown' = [thrown EXCEPT ![r] = error]
    /\ pc' = [pc EXCEPT ![r] = AfterThrow(r)]

\* A createPage call that throws: the calls of the batch before it succeeded.
CreatePageThrows(r, batch) ==
    \E j \in DOMAIN batch :
        /\ pages' = pages \o SubSeq(batch, 1, j - 1)
        /\ Throw(r, "createPage")

Issue(r, queries) ==
    /\ pending' = [pending EXCEPT ![r] = Tail(@) \o queries]
    /\ queryLog' = [queryLog EXCEPT ![r] = @ \o queries]

\* All the filtered queries issued together before the first is awaited.
QueriesAllAtOnce(r, languages, topics, k) ==
    IF k = 0
    THEN [j \in 1..NumCombinations(languages, topics) |->
            FilteredQuery(r, Combination(languages, topics, j).language,
                             Combination(languages, topics, j).topic)]
    ELSE <<>>

\* The queries issued once pair k of the nested loops is done (k = 0: on
\* entering the loops): that of the next pair, if there is one.
QueriesAfter(r, languages, topics, k) ==
    IF k < NumCombinations(languages, topics)
    THEN <<FilteredQuery(r, Combination(languages, topics, k + 1).language,
                            Combination(languages, topics, k + 1).topic)>>
    ELSE <<>>

\* The build calls the routine: its first query is issued.
Call(r) ==
    /\ pc[r] = "idle"
    /\ \A i \in DOMAIN BuildOrder :
          BuildOrder[i] = r => \A j \in 1..(i - 1) : pc[BuildOrder[j]] = "done"
    /\ pc' = [pc EXCEPT ![r] = "awaitNodes"]
    /\ pending' = [pending EXCEPT ![r] = <<AllQuery(r)>>]
    /\ queryLog' = [queryLog EXCEPT ![r] = <<AllQuery(r)>>]
    /\ UNCHANGED <<db, combo, facets, pages, files, thrown>>

\* The awaited query fails.
GraphqlRejects(r) ==
    /\ pc[r] \in {"awaitNodes", "awaitCombo"}
    /\ pending[r] # <<>>
    /\ pending' = [pending EXCEPT ![r] = <<>>]
    /\ Throw(r, "graphql")
    /\ UNCHANGED <<db, combo, facets, queryLog, pages, files>>

\* Lines 24-45, 122-143: the nodes arrive, the facets are extracted and the
\* manifest write is started.
NodesReturned(r) ==
    /\ r \in ListingRoutines
    /\ pc[r] = "awaitNodes"
    /\ pending[r] # <<>>
    /\ LET nodes == Answer(Head(pending[r]), db)
       IN  facets' = [facets EXCEPT ![r] =
                        [languages |-> extractTags(nodes, "languages"),
                         topics |-> extractTags(nodes, "topics")]]
    /\ pending' = [pending EXCEPT ![r] = Tail(@)]
    /\ pc' = [pc EXCEPT ![r] = "awaitWrite"]
    /\ UNCHANGED <<db, combo, queryLog, pages, files, thrown>>

\* The awaited writeFile fails.
WriteFileRejects(r) ==
    /\ r \in ListingRoutines
    /\ pc[r] = "awaitWrite"
    /\ Throw(r, "writeFile")
    /\ UNCHANGED <<db, combo, facets, pending, queryLog, pages, files>>

\* Lines 42-95, 140-180: the manifest is written; the detail pages and the
\* unfiltered listing are registered; the first filtered query is issued.
WriteFileDone(r) ==
    /\ r \in ListingRoutines
    /\ pc[r] = "awaitWrite"
    /\ files' = Append(files, [path |-> ManifestPath(r), data |-> facets[r]])
    /\ LET nodes == NodesOf(r, db)
           batch == DetailPages(r, nodes) \o Paginate(BaselineRequest(r, nodes))
       IN  \/ /\ pages' = pages \o batch
              /\ pending' = [pending EXCEPT ![r] =
                    QueriesAfter(r, facets[r].languages, facets[r].topics, 0)]
              /\ queryLog' = [queryLog EXCEPT ![r] =
                    @ \o QueriesAfter(r, facets[r].languages, facets[r].topics, 0)]
              /\ combo' = [combo EXCEPT ![r] = 1]
              /\ pc' = [pc EXCEPT ![r] = "awaitCombo"]
              /\ UNCHANGED thrown
           \/ /\ CreatePageThrows(r, batch)
              /\ UNCHANGED <<combo, pending, queryLog>>
    /\ UNCHANGED <<db, facets>>

\* Lines 80-111, 165-196: the filtered nodes of the current pair arrive and
\* their listing is registered; the query of the next pair is issued, or
\* the loops end.
ComboReturned(r) ==
    /\ r \in ListingRoutines
    /\ pc[r] = "awaitCombo"
    /\ pending[r] # <<>>
    /\ LET k == combo[r]
           c == Combination(facets[r].languages, facets[r].topics, k)
           items == Answer(Head(pending[r]), db)
           batch == Paginate(FilteredRequest(r, c.language, c.topic, items))
           last == k >= NumCombinations(facets[r].languages, facets[r].topics)
       IN  \/ /\ pages' = pages \o batch
              /\ Issue(r, QueriesAfter(r, facets[r].languages, facets[r].topics, k))
              /\ combo' = [combo EXCEPT ![r] = IF last THEN k ELSE k + 1]
              /\ pc' = [pc EXCEPT ![r] = IF last THEN "done" ELSE "awaitCombo"]
              /\ UNCHANGED thrown
           \/ /\ CreatePageThrows(r, batch)
              /\ pending' = [pending EXCEPT ![r] = Tail(@)]
              /\ UNCHANGED <<combo, queryLog>>
    /\ UNCHANGED <<db, facets, files>>

\* Lines 231-287: the tracks arrive; the pages of each track are registered
\* in node order, until a track has no first video.
TrackVideoNodesReturned ==
    LET r == "createTrackVideoPages" IN
    /\ pc[r] = "awaitNodes"
    /\ pending[r] # <<>>
    /\ pending' = [pending EXCEPT ![r] = Tail(@)]
    /\ LET tracks == Answer(Head(pending[r]), db)
           batch == TrackVideoBatch(tracks)
       IN  \/ /\ FirstThrowingTrack(tracks) = 0
              /\ pages' = pages \o batch
              /\ pc' = [pc EXCEPT ![r] = "done"]
              /\ UNCHANGED thrown
           \/ /\ FirstThrowingTrack(tracks) > 0
              /\ pages' = pages \o batch
              /\ Throw(r, "TypeError")
           \/ CreatePageThrows(r, batch)
    /\ UNCHANGED <<db, combo, facets, queryLog, files>>

\* Lines 306-314: the guides arrive and their pages are registered.
GuideNodesReturned ==
    LET r == "createGuidePages" IN
    /\ pc[r] = "awaitNodes"
    /\ pending[r] # <<>>
    /\ pending' = [pending EXCEPT ![r] = Tail(@)]
    /\ LET batch == GuideBatch(Answer(Head(pending[r]), db))
       IN  \/ /\ pages' = pages \o batch
              /\ pc' = [pc EXCEPT ![r] = "done"]
              /\ UNCHANGED thrown
           \/ CreatePageThrows(r, batch)
    /\ UNCHANGED <<db, combo, facets, queryLog, files>>

Next ==
    \/ \E r \in Routines : Call(r)
    \/ \E r \in Routines : GraphqlRejects(r)
    \/ \E r \in ListingRoutines : NodesReturned(r)
    \/ \E r \in ListingRoutines : WriteFileRejects(r)
    \/ \E r \in ListingRoutines : WriteFileDone(r)
    \/ \E r \in ListingRoutines : ComboReturned(r)
    \/ TrackVideoNodesReturned
    \/ GuideNodesReturned

Spec == Init /\ [][Next]_vars

----------------------------------------------------------------------------
\* Properties

RC == "createChallengesPages"
RT == "createTracksPages"
RV == "createTrackVideoPages"
RG == "createGuidePages"

DistinctSlugs(nodes) ==
    \A i, j \in DOMAIN nodes : i # j => nodes[i].slug # nodes[j].slug

\* The registered pages bound to a template.
PagesWith(template) == { i \in DOMAIN pages : pages[i].component = template }

\* One page per node and one node per page, at collection/slug.
OneToOne(nodes, segment, template) ==
    /\ Cardinality(PagesWith(template)) = Len(nodes)
    /\ \A n \in DOMAIN nodes :
          Cardinality({ i \in PagesWith(template) :
                          pages[i].path = <<segment, nodes[n].slug>> }) = 1
    /\ \A i \in PagesWith(template) :
          \E n \in DOMAIN nodes : pages[i].path = <<segment, nodes[n].slug>>

\* C1: once createChallengesPages (createGuidePages) has completed on nodes
\* with pairwise distinct slugs, there are as many detail pages as nodes,
\* every node has exactly one detail page, at challenges/<slug>
\* (guides/<slug>), and every detail page is the page of a node.
C1_SingleItemPagesOneToOne ==
    /\ (pc[RC] = "done" /\ DistinctSlugs(db.challenges))
          => OneToOne(db.challenges, SEG_CHALLENGES, "templates/challenge.js")
    /\ (pc[RG] = "done" /\ DistinctSlugs(db.guides))
          => OneToOne(db.guides, SEG_GUIDES, "templates/guide.js")

C1_Witness ==
    /\ pc[RG] = "done"
    /\ Len(db.challenges) = 2
    /\ DistinctSlugs(db.challenges)
    /\ Cardinality(PagesWith("templates/challenge.js")) = 2
    /\ Cardinality(PagesWith("templates/guide.js")) = 1

\* C2 as stated: the context of every detail page of createChallengesPages
\* and of createGuidePages holds both the identifier and the slug of its node.
C2_ContextHasIdAndSlug ==
    \A i \in PagesWith("templates/challenge.js") \cup PagesWith("templates/guide.js") :
        {"id", "slug"} \subseteq DOMAIN pages[i].context

\* C2 as amended: the context of a challenge's detail page is the
\* identifier and the slug of its node; the context of a guide's page is
\* the slug of its node and nothing else (the guides are queried for their
\* slug alone).
C2_ContextOfDetailPages ==
    /\ \A i \in PagesWith("templates/challenge.js") :
          \E n \in DOMAIN db.challenges :
              /\ pages[i].path = <<SEG_CHALLENGES, db.challenges[n].slug>>
              /\ DOMAIN pages[i].context = {"id", "slug"}
              /\ pages[i].context.id = db.challenges[n].id
              /\ pages[i].context.slug = db.challenges[n].slug
    /\ \A i \in PagesWith("templates/guide.js") :
          \E n \in DOMAIN db.guides :
              /\ pages[i].path = <<SEG_GUIDES, db.guides[n].slug>>
              /\ DOMAIN pages[i].context = {"slug"}
              /\ pages[i].context.slug = db.guides[n].slug

C2_Witness ==
    /\ PagesWith("templates/challenge.js") # {}
    /\ PagesWith("templates/guide.js") # {}

\* Every tag value of the nodes in one dimension.
TagValues(nodes, pluckKey) ==
    UNION { { nodes[n][pluckKey][t] : t \in DOMAIN nodes[n][pluckKey] } : n \in DOMAIN nodes }

\* A facet of the nodes: every value once, none invented, never descending.
IsFacet(tags, nodes, pluckKey) ==
    /\ \A i, j \in DOMAIN tags : i # j => tags[i] # tags[j]
    /\ { tags[i] : i \in DOMAIN tags } = TagValues(nodes, pluckKey)
    /\ \A i \in 1..(Len(tags) - 1) : localeCompare(tags[i], tags[i + 1]) <= 0
    /\ \A i \in 1..(Len(tags) - 1) :
          toLowerCase(tags[i]) = toLowerCase(tags[i + 1])
          \/ CompareFrom(toLowerCase(tags[i]), toLowerCase(tags[i + 1]), 1) < 0
    /\ nodes = <<>> => tags = <<>>

FacetsExtracted(r) == pc[r] \in {"awaitWrite", "awaitCombo", "done"}

\* C6: what extractTags returned for the languages and for the topics of
\* the nodes holds every tag value of the nodes exactly once and no other,
\* in an order in which no element compares greater than the next under
\* the case-insensitive collation; it is empty for no nodes.
C6_ExtractTagsDedupedSorted ==
    \A r \in ListingRoutines :
        FacetsExtracted(r) =>
            /\ IsFacet(facets[r].languages, NodesOf(r, db), "languages")
            /\ IsFacet(facets[r].topics, NodesOf(r, db), "topics")

C6_Witness ==
    /\ FacetsExtracted(RC)
    /\ facets[RC].languages = <<LANG_JS_LOWER, LANG_JS_UPPER, LANG_P5>>
    /\ facets[RC].topics = <<TOPIC_ALL, TOPIC_ML>>

\* A pair of the nested loops, by its position k (from 1): the languages
\* in facet order then the wildcard and, within each, the topics in facet
\* order then the wildcard.
PairAt(r, k) ==
    LET perLanguage == Len(facets[r].topics) + 1
        l == ((k - 1) \div perLanguage) + 1
        t == k - (l - 1) * perLanguage
    IN  [language |-> IF l <= Len(facets[r].languages)
                      THEN facets[r].languages[l] ELSE WILDCARD,
         topic |-> IF t <= Len(facets[r].topics)
                   THEN facets[r].topics[t] ELSE WILDCARD]

NumPairs(r) == (Len(facets[r].languages) + 1) * (Len(facets[r].topics) + 1)

\* The filter values a listing page carries for a tag or for the wildcard.
ContextValue(tag) == IF tag = WILDCARD THEN <<>> ELSE tag

\* The registered pages, in order, of the unfiltered listing of a routine.
BaselinePages(r) ==
    LET Is(p) == p.component = ListingTemplate(r) /\ Len(p.path) <= 2
    IN  SelectSeq(pages, Is)

\* The registered pages, in order, of the filtered listing of one pair.
FilteredPages(r, pair) ==
    LET Is(p) ==
            /\ p.component = ListingTemplate(r)
            /\ Len(p.path) > 2
            /\ p.context.language = ContextValue(pair.language)
            /\ p.context.topic = ContextValue(pair.topic)
    IN  SelectSeq(pages, Is)

\* The nodes a case-insensitive exact match on both dimensions selects.
MatchingIds(r, pair) ==
    LET Has(tags, tag) ==
            \E i \in DOMAIN tags : tag = WILDCARD \/ toLowerCase(tags[i]) = toLowerCase(tag)
        Passes(node) == Has(node.languages, pair.language) /\ Has(node.topics, pair.topic)
        passing == SelectSeq(NodesOf(r, db), Passes)
    IN  [i \in DOMAIN passing |-> [id |-> passing[i].id]]

\* The items a listing page stands for: those its skip and limit select.
ItemsOn(page, items) ==
    SubSeq(items, page.context.skip + 1,
           IF page.context.skip + page.context.limit < Len(items)
           THEN page.context.skip + page.context.limit ELSE Len(items))

\* The pages ps are the listing of the items, 50 to a page.
SplitByFifty(ps, items) ==
    LET n == Len(items)
        N == (n + 49) \div 50
    IN  /\ Len(ps) = N
        /\ \A i \in 1..N :
              /\ ps[i].context.humanPageNumber = i
              /\ ps[i].context.numberOfPages = N
              /\ ps[i].context.limit = 50
              /\ i < N => Len(ItemsOn(ps[i], items)) = 50
              /\ i = N => Len(ItemsOn(ps[i], items)) = n - 50 * (N - 1)
        /\ Flatten([i \in 1..N |-> ItemsOn(ps[i], items)]) = items
        /\ n = 120 => [i \in 1..N |-> Len(ItemsOn(ps[i], items))] = <<50, 50, 20>>
        /\ n = 0 => ps = <<>>

\* The pairs whose listing a routine has registered in full.
PairsDone(r) ==
    IF pc[r] = "done" THEN 1..NumPairs(r)
    ELSE IF pc[r] = "awaitCombo" THEN 1..(combo[r] - 1)
    ELSE {}

\* C4: the unfiltered listing and the listing of every pair, once
\* registered, has ceil(n / 50) pages for its n items, numbered from 1 in
\* order, 50 items on every page but the last, the pages together holding
\* the items once each in query order; 120 items make pages of 50, 50 and
\* 20, and no item makes no page.
C4_ListingsSplitByFifty ==
    \A r \in ListingRoutines :
        /\ pc[r] \in {"awaitCombo", "done"}
              => SplitByFifty(BaselinePages(r), NodesOf(r, db))
        /\ \A k \in PairsDone(r) :
              SplitByFifty(FilteredPages(r, PairAt(r, k)), MatchingIds(r, PairAt(r, k)))

C4_Witness ==
    /\ pc[RC] = "done"
    /\ Len(db.challenges) = 120
    /\ Len(BaselinePages(RC)) = 3
    /\ Len(FilteredPages(RC, [language |-> LANG_JS_LOWER, topic |-> WILDCARD])) = 2
    /\ Len(FilteredPages(RC, [language |-> LANG_P5, topic |-> TOPIC_ML])) = 1

FilteredLog(r) ==
    LET Is(q) == q.filtered IN SelectSeq(queryLog[r], Is)

\* The query of a pair, as the routine words it.
QueryOfPair(r, pair) ==
    [routine |-> r, filtered |-> TRUE,
     languageRegex |-> <<"/","^">> \o pair.language \o <<"$","/","i">>,
     topicRegex |-> <<"/","^">> \o pair.topic \o <<"$","/","i">>]

\* C8: a listing routine has at most one query outstanding; its filtered
\* queries are those of the pairs in loop order, one each, (L+1)*(T+1) of
\* them once it has completed; no listing page of a pair is registered
\* before the pair's query has been answered; and a pair's query is issued
\* only when the listings of all the pairs before it are registered.
C8_OneQueryPerPairInSequence ==
    \A r \in ListingRoutines :
        /\ Len(pending[r]) <= 1
        /\ Len(FilteredLog(r)) <= NumPairs(r)
        /\ pc[r] = "done" => Len(FilteredLog(r)) = NumPairs(r)
        /\ \A k \in DOMAIN FilteredLog(r) : FilteredLog(r)[k] = QueryOfPair(r, PairAt(r, k))
        /\ \A k \in 1..NumPairs(r) :
              FilteredPages(r, PairAt(r, k)) # <<>>
                  => /\ k <= Len(FilteredLog(r))
                     /\ \A i \in DOMAIN pending[r] : pending[r][i] # QueryOfPair(r, PairAt(r, k))
        /\ \A k \in 1..(Len(FilteredLog(r)) - 1) :
              Len(FilteredPages(r, PairAt(r, k)))
                  = (Len(MatchingIds(r, PairAt(r, k))) + 49) \div 50

C8_Witness ==
    /\ pc[RT] = "done"
    /\ Len(facets[RT].languages) = 3
    /\ Len(facets[RT].topics) = 2
    /\ Len(FilteredLog(RT)) = 12
    /\ Len(FilteredLog(RC)) = 4

\* The templates a listing routine registers pages with.
TemplatesOf(r) ==
    IF r = RC THEN {"templates/challenge.js", "templates/challenges.js"}
    ELSE {"templates/tracks.js"}

\* What a listing routine has committed: its pages and its manifest.
OutputsOf(r) ==
    [pages |-> { i \in DOMAIN pages : pages[i].component \in TemplatesOf(r) },
     files |-> { i \in DOMAIN files : files[i].path = ManifestPath(r) }]

IsPrefix(s, t) == Len(s) <= Len(t) /\ SubSeq(t, 1, Len(s)) = s

\* C7 as stated: when an error has left a listing routine, the routine has
\* registered no page and written no manifest.
C7_NothingCommittedOnFailure ==
    \A r \in ListingRoutines :
        thrown[r] # "" => OutputsOf(r).pages = {} /\ OutputsOf(r).files = {}

\* C7 as amended: a failing query, manifest write or page registration
\* leaves the routine at once (the routine has failed, nothing of it is
\* outstanding), after which the routine issues no query, registers no
\* page and writes no file; what was registered and written before the
\* failure is kept as it is.
C7_FailurePropagatesWithoutRollback ==
    [][ \A r \in ListingRoutines :
          /\ thrown'[r] # "" => pc'[r] = "failed" /\ pending'[r] = <<>>
          /\ thrown[r] # ""
                => /\ OutputsOf(r)' = OutputsOf(r)
                   /\ queryLog'[r] = queryLog[r]
                   /\ thrown'[r] = thrown[r]
          /\ thrown[r] = "" /\ thrown'[r] # "" => queryLog'[r] = queryLog[r]
          /\ IsPrefix(pages, pages')
          /\ IsPrefix(files, files') ]_vars

C7_Witness ==
    /\ thrown[RT] = "graphql"
    /\ combo[RT] >= 2
    /\ OutputsOf(RT).pages # {}
    /\ OutputsOf(RT).files # {}
    /\ OutputsOf(RC).pages # {}

\* A track with no videos and no chapters.
EmptyTrack(track) ==
    IF "chapters" \in DOMAIN track THEN track.chapters = <<>> ELSE track.videos = <<>>

\* Whether the track's first video exists: the first of the first chapter
\* if chaptered, the first of the videos if flat.
FirstVideoExists(track) ==
    IF "chapters" \in DOMAIN track
    THEN track.chapters # <<>> /\ track.chapters[1].videos # <<>>
    ELSE track.videos # <<>>

\* The videos of a track with their declared positions, from (0, 0).
PositionsOf(track) ==
    IF "chapters" \in DOMAIN track
    THEN UNION { { [video |-> track.chapters[c].videos[v],
                    chapterIndex |-> c - 1, videoIndex |-> v - 1] :
                      v \in DOMAIN track.chapters[c].videos } :
                  c \in DOMAIN track.chapters }
    ELSE { [video |-> track.videos[v], chapterIndex |-> 0, videoIndex |-> v - 1] :
             v \in DOMAIN track.videos }

PagesOfTrack(track) ==
    { i \in PagesWith("templates/track-video.js") : pages[i].context.trackId = track.id }

\* createTrackVideoPages has gone through its loop, to the end or to a
\* failing first-video lookup (no page registration failed).
LoopRan == pc[RV] = "done" \/ thrown[RV] = "TypeError"


\* C9: a track with no videos and no chapters never gets a page, neither
\* landing page nor video page; with such a track among the nodes the
\* routine does not complete: its loop ends in the TypeError of the
\* first-video lookup; the tracks after it get no page; and the tracks
\* before it, when their own lookups succeed, have all their pages
\* registered at the failure.
C9_EmptyTrackStopsTheLoop ==
    \A t \in DOMAIN db.tracks :
        EmptyTrack(db.tracks[t]) =>
            /\ PagesOfTrack(db.tracks[t]) = {}
            /\ pc[RV] # "done"
            /\ \A u \in (t + 1)..Len(db.tracks) : PagesOfTrack(db.tracks[u]) = {}
            /\ LoopRan =>
                  /\ thrown[RV] = "TypeError"
                  /\ pc[RV] = "failed"
                  /\ \A u \in 1..(t - 1) :
                        (\A w \in 1..u : FirstVideoExists(db.tracks[w]))
                            => Cardinality(PagesOfTrack(db.tracks[u]))
                                  = 1 + Cardinality(PositionsOf(db.tracks[u]))

C9_Witness ==
    /\ thrown[RV] = "TypeError"
    /\ Len(db.tracks) = 2
    /\ EmptyTrack(db.tracks[2])
    /\ Cardinality(PagesOfTrack(db.tracks[1])) = 4

\* C5: once the loop of createTrackVideoPages has run, every track with at
\* least one video has its landing page at tracks/<slug>, marked as the
\* track page, referring to the track's first video at position (0, 0),
\* and every video of the track has exactly one page at
\* tracks/<slug>/<video slug>, not marked as the track page, at its
\* declared position.
C5_TrackPagesAtDeclaredPositions ==
    LoopRan =>
        \A t \in DOMAIN db.tracks :
            LET track == db.tracks[t] IN
            PositionsOf(track) # {} =>
                /\ FirstVideoExists(track)
                /\ \E i \in PagesOfTrack(track) :
                      /\ pages[i].path = <<SEG_TRACKS, track.slug>>
                      /\ pages[i].context.isTrackPage
                      /\ pages[i].context.trackPosition = [chapterIndex |-> 0, videoIndex |-> 0]
                      /\ \E pos \in PositionsOf(track) :
                            /\ pos.chapterIndex = 0 /\ pos.videoIndex = 0
                            /\ pages[i].context.videoId = pos.video.id
                /\ \A pos \in PositionsOf(track) :
                      Cardinality({ i \in PagesOfTrack(track) :
                            /\ pages[i].path = <<SEG_TRACKS, track.slug, pos.video.slug>>
                            /\ ~pages[i].context.isTrackPage
                            /\ pages[i].context.videoId = pos.video.id
                            /\ pages[i].context.trackPosition =
                                  [chapterIndex |-> pos.chapterIndex,
                                   videoIndex |-> pos.videoIndex] }) = 1

\* The listing path of a pair: collection/lang/<L>/topic/<T>, a wildcard
\* being the segment all and a tag its slug.
ListingPath(r, pair) ==
    <<CollectionSegment(r), SEG_LANG,
      IF pair.language = WILDCARD THEN SEG_ALL ELSE toSlug(pair.language),
      SEG_TOPIC,
      IF pair.topic = WILDCARD THEN SEG_ALL ELSE toSlug(pair.topic)>>

\* C3: once a listing routine has completed, every pair has no page if
\* nothing matches it and else its pages at its listing path (the first
\* page at the path itself), and no page of one pair is at the path of a
\* page of another pair.
C3_OneListingPathPerPair ==
    \A r \in ListingRoutines :
        pc[r] = "done" =>
            /\ \A k \in 1..NumPairs(r) :
                  LET ps == FilteredPages(r, PairAt(r, k)) IN
                  /\ MatchingIds(r, PairAt(r, k)) = <<>> => ps = <<>>
                  /\ MatchingIds(r, PairAt(r, k)) # <<>> =>
                        /\ ps # <<>>
                        /\ ps[1].path = ListingPath(r, PairAt(r, k))
                        /\ \A i \in DOMAIN ps :
                              SubSeq(ps[i].path, 1, 5) = ListingPath(r, PairAt(r, k))
            /\ \A k1, k2 \in 1..NumPairs(r) :
                  k1 # k2 =>
                      \A i \in DOMAIN FilteredPages(r, PairAt(r, k1)) :
                          \A j \in DOMAIN FilteredPages(r, PairAt(r, k2)) :
                              FilteredPages(r, PairAt(r, k1))[i].path
                                  # FilteredPages(r, PairAt(r, k2))[j].path

\* C10: in a build on nodes whose slugs are distinct within each content
\* type, no path is registered twice, no file is written twice, and a
\* completed build has written each of the two manifests once.
C10_EveryWriteADistinctKey ==
    (DistinctSlugs(db.challenges) /\ DistinctSlugs(db.tracks) /\ DistinctSlugs(db.guides))
        => /\ \A i, j \in DOMAIN pages : i # j => pages[i].path # pages[j].path
           /\ \A i, j \in DOMAIN files : i # j => files[i].path # files[j].path
           /\ pc[RG] = "done" =>
                 /\ Cardinality(OutputsOf(RC).files) = 1
                 /\ Cardinality(OutputsOf(RT).files) = 1

====
